---------------------------- MODULE Spec2Model ----------------------------
(***************************************************************************)
(* A model of the long-way trip planner: the storage adapters (SQLite on   *)
(* one shared connection, Postgres over Neon's HTTP driver), the           *)
(* repository layer's stop mutations, the reorder route, lazy schema       *)
(* initialisation and the assistant tool loop.                             *)
(*                                                                         *)
(* Every action is one synchronous block of the JavaScript code: the code  *)
(* between two suspension points (await).  Requests interleave only at     *)
(* suspension points.                                                      *)
(***************************************************************************)
EXTENDS Integers, Sequences, FiniteSets, TLC

VARIABLES
    dialect,    \* "sqlite" | "postgres": the adapter chosen for the process
    db,         \* the rows every query on the adapter sees: [trips, stops]
    txOpen,     \* SQLite connection: a BEGIN is in effect
    snap,       \* SQLite connection: the rows as of that BEGIN
    clock,      \* the last value new Date() returned
    nextId,     \* stop ids handed out so far + 1 (uuidv4 never repeats)
    started,    \* repository requests started so far
    faults,     \* storage failures injected so far
    req,        \* the in-flight repository requests, by slot
    revision,   \* which revision of the repository layer runs: "perCall" | "ensureSchema"
    adapter,    \* the singleton adapter has been created
    schemaInitPromise,  \* "null" | "pending" | "resolved"
    schemaInitialized,  \* the adapter's private flag
    ddlRuns,    \* runs of the schema DDL started so far
    caller,     \* where each caller of a repository function stands
    chat,       \* the chat request of the assistant tool loop
    settings,   \* the settings route: the stored credential and the last response
    issued,     \* the last statement handed to an adapter, with its binding
    stopFields  \* the validated columns of the stops, by stop id

dbVars == <<dialect, db, txOpen, snap, clock, nextId, started, faults, req>>
schemaVars == <<revision, adapter, schemaInitPromise, schemaInitialized, ddlRuns, caller>>
edgeVars == <<settings, issued, stopFields>>
vars == <<dbVars, schemaVars, chat, edgeVars>>

---------------------------------------------------------------------------
(* Bounds of the model *)

MaxStops == 3       \* stop ids ever handed out
MaxReqs == 2        \* request slots (requests in flight together)
MaxOps == 2         \* repository requests started in one behaviour, interleaved
MaxSeqOps == 3      \* repository requests started in one behaviour, one at a time
MaxFaults == 1      \* injected storage failures in one behaviour
MaxClock == 1       \* distinct clock readings
MaxIdsLen == 2      \* length of an id list handed to reorder
MaxCallers == 3     \* callers of repository functions during schema initialisation
MaxBlocks == 2      \* content blocks in one model response
MaxTurns == 2       \* model calls the shortest incoming history allows
MsgCap == 20        \* the loop's safety limit on claudeMessages.length

TripIds == {1, 2}
StopIds == 1 .. MaxStops
Slots == 1 .. MaxReqs
Callers == 1 .. MaxCallers
Names == {"a", "b"}
Undef == -1         \* an absent (undefined) optional field
NoName == "undef"   \* an absent (undefined) name in a patch
Null == "null"      \* an explicit null

---------------------------------------------------------------------------
(* Rows and statements *)

Min(a, b) == IF a < b THEN a ELSE b

\* The ids present in table stops.
StopRows(d) == DOMAIN d.stops

\* SELECT * FROM stops WHERE id = $1
getStopById(d, id) == IF id \in StopRows(d) THEN d.stops[id] ELSE [trip_id |-> 0, order |-> Undef, name |-> NoName]

\* The stop ids of one trip.
TripStops(d, t) == {s \in StopRows(d) : d.stops[s].trip_id = t}

\* The row that comes first under ORDER BY "order" (ties in index order).
FirstByOrder(d, S) == CHOOSE s \in S : \A u \in S : d.stops[s].order < d.stops[u].order \/ (d.stops[s].order = d.stops[u].order /\ s <= u)

RECURSIVE SortByOrder(_, _)
SortByOrder(d, S) == IF S = {} THEN <<>> ELSE LET s == FirstByOrder(d, S) IN <<s>> \o SortByOrder(d, S \ {s})

\* SELECT * FROM stops WHERE trip_id = $1 ORDER BY "order": the ids, in order.
getStopsByTripId(d, t) == SortByOrder(d, TripStops(d, t))

\* The rows of that listing.
StopList(d, t) == LET ids == getStopsByTripId(d, t) IN [i \in 1 .. Len(ids) |-> [id |-> ids[i], order |-> d.stops[ids[i]].order, name |-> d.stops[ids[i]].name]]

\* The number of the trip's stops.
countStops(d, t) == Cardinality(TripStops(d, t))

\* SELECT MAX("order") ...; (max_order ?? -1) + 1
getNextOrder(d, t) == IF TripStops(d, t) = {} THEN 0 ELSE 1 + (CHOOSE m \in {d.stops[s].order : s \in TripStops(d, t)} : \A s \in TripStops(d, t) : d.stops[s].order <= m)

\* A write statement.  at/by: the timestamp written and the request that wrote it.
Stmt(k, id, trip, order, name, at, by) == [k |-> k, id |-> id, trip |-> trip, order |-> order, name |-> name, at |-> at, by |-> by]

\* UPDATE stops SET ... WHERE id = $n, for the supplied fields only.
PatchRow(row, s) == [row EXCEPT !.name = IF s.name = NoName THEN @ ELSE s.name, !.order = IF s.order = Undef THEN @ ELSE s.order]

\* The rows a statement changes.
changes(d, s) ==
    CASE s.k = "insert" -> 1
      [] s.k = "update" -> IF s.id \in StopRows(d) THEN 1 ELSE 0
      [] s.k = "delete" -> IF s.id \in StopRows(d) THEN 1 ELSE 0
      [] s.k = "setorder" -> IF s.id \in StopRows(d) /\ d.stops[s.id].trip_id = s.trip THEN 1 ELSE 0
      [] s.k = "touch" -> IF s.trip \in DOMAIN d.trips THEN 1 ELSE 0
      [] s.k = "updateTrip" -> IF s.trip \in DOMAIN d.trips THEN 1 ELSE 0
      [] s.k = "deleteTrip" -> IF s.trip \in DOMAIN d.trips THEN 1 ELSE 0
      [] s.k = "insertConversation" -> 1
      [] s.k = "updateConversation" -> Cardinality({c \in DOMAIN d.conversations : d.conversations[c].trip_id = s.trip})

\* A rowCount that is always one.
oneRow(dl, d, s) == 1

\* The rowCount execute reports: SQLite's result.changes; over Neon the number
\* of rows the statement returned, and no statement here has a RETURNING clause.
rowCount(dl, d, s) == IF dl = "sqlite" THEN changes(d, s) ELSE 0

\* A schema without foreign keys.
noForeignKeys(d, s) == FALSE

\* A statement the foreign keys refuse: a row for a trip that is not there
\* (REFERENCES trips(id); better-sqlite3 builds SQLite with foreign keys on).
violatesForeignKey(d, s) == s.k \in {"insert", "insertConversation"} /\ s.trip \notin DOMAIN d.trips

\* The rows after a statement has run.
execute(d, s) ==
    CASE s.k = "insert" -> [d EXCEPT !.stops = [x \in StopRows(d) \cup {s.id} |-> IF x = s.id THEN [trip_id |-> s.trip, order |-> s.order, name |-> s.name] ELSE d.stops[x]]]
      [] s.k = "update" -> IF s.id \in StopRows(d) THEN [d EXCEPT !.stops[s.id] = PatchRow(@, s)] ELSE d
      [] s.k = "delete" -> [d EXCEPT !.stops = [x \in StopRows(d) \ {s.id} |-> d.stops[x]]]
      [] s.k = "setorder" -> IF changes(d, s) = 1 THEN [d EXCEPT !.stops[s.id].order = s.order] ELSE d
      [] s.k = "touch" -> IF s.trip \in DOMAIN d.trips THEN [d EXCEPT !.trips[s.trip].updated_at = s.at, !.trips[s.trip].by = s.by] ELSE d
      [] s.k = "updateTrip" -> IF s.trip \in DOMAIN d.trips THEN [d EXCEPT !.trips[s.trip] = [name |-> s.name, description |-> s.description, updated_at |-> s.at, by |-> s.by]] ELSE d
      [] s.k = "deleteTrip" -> [trips |-> [t \in DOMAIN d.trips \ {s.trip} |-> d.trips[t]],
                                stops |-> [x \in {y \in StopRows(d) : d.stops[y].trip_id # s.trip} |-> d.stops[x]],
                                conversations |-> [c \in {y \in DOMAIN d.conversations : d.conversations[y].trip_id # s.trip} |-> d.conversations[c]]]
      [] s.k = "insertConversation" -> [d EXCEPT !.conversations = [c \in DOMAIN d.conversations \cup {s.id} |-> IF c = s.id THEN [trip_id |-> s.trip, messages |-> s.name] ELSE d.conversations[c]]]
      [] s.k = "updateConversation" -> [d EXCEPT !.conversations = [c \in DOMAIN d.conversations |-> IF d.conversations[c].trip_id = s.trip THEN [d.conversations[c] EXCEPT !.messages = s.name] ELSE d.conversations[c]]]

\* UPDATE trips SET updated_at = $1 WHERE id = $2
touchTrip(t, at, by) == Stmt("touch", 0, t, Undef, NoName, at, by)


---------------------------------------------------------------------------
(* The repository layer's transactions: the statements work issues *)

RECURSIVE SeqsUpTo(_, _)
SeqsUpTo(S, n) == IF n = 0 THEN {<<>>} ELSE LET shorter == SeqsUpTo(S, n - 1) IN shorter \cup {Append(q, x) : q \in {p \in shorter : Len(p) = n - 1}, x \in S}

\* The id lists a caller may hand to reorder.
IdLists == SeqsUpTo(StopIds, MaxIdsLen)

\* createStop's transaction: the INSERT, then the trip's updated_at.
createStop(id, t, order, name, now, tag) == <<Stmt("insert", id, t, order, name, 0, 0), touchTrip(t, now, tag)>>

\* updateStop's transaction: the UPDATE of the supplied fields, then the trip's updated_at.
updateStop(id, t, order, name, now, tag) == <<Stmt("update", id, 0, order, name, 0, 0), touchTrip(t, now, tag)>>

\* deleteStop's transaction: the DELETE, then (if a row went) the trip's updated_at.
deleteStop(id, t, now, tag) == <<Stmt("delete", id, 0, Undef, NoName, 0, 0), touchTrip(t, now, tag)>>

\* Orders counted from one.
orderAtOneBased(i) == i

\* The order reorderStops gives the id at (1-based) position i.
orderAt(i) == i - 1

\* reorderStops's transaction: order = index for each id, then the trip's updated_at.
reorderStops(t, ids, now, tag) == [i \in 1 .. Len(ids) |-> Stmt("setorder", ids[i], t, orderAt(i), NoName, 0, 0)] \o <<touchTrip(t, now, tag)>>

\* What is left of work after its first statement has run against d:
\* deleteStop skips the trip's refresh when the DELETE removed nothing.
restOf(d, todo) == IF todo[1].k = "delete" /\ rowCount(dialect, d, todo[1]) = 0 THEN <<>> ELSE Tail(todo)

---------------------------------------------------------------------------
(* Repository requests on the shared adapter *)

Idle == [op |-> "none", pc |-> "idle", tag |-> 0, tripId |-> 0, stopId |-> 0, ids |-> <<>>, name |-> NoName, description |-> NoName, order |-> Undef, now |-> 0, todo |-> <<>>, existing |-> FALSE, trip |-> Null, ret |-> "none", err |-> "none"]

InFlight == {r \in Slots : req[r].pc # "idle"}

\* A caller enters createStop: uuidv4(), then awaits the schema.
CallCreateStop(r, t, order) ==
    /\ nextId <= MaxStops
    /\ req' = [req EXCEPT ![r] = [Idle EXCEPT !.op = "createStop", !.pc = IF order = Undef THEN "read" ELSE "begin", !.tag = started + 1, !.tripId = t, !.stopId = nextId, !.name = "a", !.order = order]]
    /\ nextId' = nextId + 1

\* A caller enters updateStop with a patch of name and/or order.
CallUpdateStop(r, id, order, name) ==
    /\ req' = [req EXCEPT ![r] = [Idle EXCEPT !.op = "updateStop", !.pc = "read", !.tag = started + 1, !.stopId = id, !.name = name, !.order = order]]
    /\ UNCHANGED nextId

\* A caller enters deleteStop.
CallDeleteStop(r, id) ==
    /\ req' = [req EXCEPT ![r] = [Idle EXCEPT !.op = "deleteStop", !.pc = "read", !.tag = started + 1, !.stopId = id]]
    /\ UNCHANGED nextId

\* A caller enters reorderStops.
CallReorderStops(r, t, ids) ==
    /\ req' = [req EXCEPT ![r] = [Idle EXCEPT !.op = "reorderStops", !.pc = "begin", !.tag = started + 1, !.tripId = t, !.ids = ids]]
    /\ UNCHANGED nextId

\* reorderStopsSchema: an array of at least one uuid.
reorderStopsSchema(ids) == Len(ids) >= 1

\* PATCH /api/trips/[id]/stops arrives; the trip exists and the body parses.
CallPATCH(r, t, ids) ==
    /\ reorderStopsSchema(ids)
    /\ req' = [req EXCEPT ![r] = [Idle EXCEPT !.op = "PATCH", !.pc = "read", !.tag = started + 1, !.tripId = t, !.ids = ids]]
    /\ UNCHANGED nextId

\* A request starts in the first free slot; at most `limit` requests are in
\* flight and at most `ops` are started.
Call(r, limit, ops) ==
    /\ req[r].pc = "idle"
    /\ \A x \in Slots : x < r => req[x].pc # "idle"
    /\ started < ops
    /\ Cardinality(InFlight) < limit
    /\ started' = started + 1
    /\ \/ \E t \in TripIds, order \in {Undef, 0} : CallCreateStop(r, t, order)
       \/ \E id \in StopIds, order \in {Undef, 0}, name \in {NoName, "b"} : CallUpdateStop(r, id, order, name)
       \/ \E id \in StopIds : CallDeleteStop(r, id)
       \/ \E t \in TripIds, ids \in IdLists : CallReorderStops(r, t, ids)
       \/ \E t \in TripIds, ids \in IdLists : CallPATCH(r, t, ids)
    /\ UNCHANGED <<dialect, db, txOpen, snap, clock, faults>>

\* a ?? b: b when a is undefined or null.
orElse(a, b) == IF a \in {NoName, Null} THEN b ELSE a

\* SELECT * FROM conversations WHERE trip_id = $1: whether there is a row.
getConversation(d, t) == \E c \in DOMAIN d.conversations : d.conversations[c].trip_id = t

\* PATCH's check: every supplied id is a stop of the trip.
invalidIds(d, t, ids) == {ids[i] : i \in 1 .. Len(ids)} \ TripStops(d, t)

\* The read a call makes before its transaction.
Read(r) ==
    /\ req[r].pc = "read"
    /\ LET q == req[r]
           stop == getStopById(db, q.stopId)
       IN req' = [req EXCEPT ![r] =
            CASE q.op = "createStop" -> [q EXCEPT !.order = getNextOrder(db, q.tripId), !.pc = "begin"]
              [] q.op = "updateStop" -> IF q.stopId \notin StopRows(db) THEN [q EXCEPT !.pc = "absent", !.ret = Null]
                                        ELSE IF q.name = NoName /\ q.order = Undef THEN [q EXCEPT !.tripId = stop.trip_id, !.pc = "done", !.ret = stop]
                                        ELSE [q EXCEPT !.tripId = stop.trip_id, !.pc = "begin"]
              [] q.op = "deleteStop" -> IF q.stopId \notin StopRows(db) THEN [q EXCEPT !.pc = "absent", !.ret = FALSE]
                                        ELSE [q EXCEPT !.tripId = stop.trip_id, !.pc = "begin"]
              [] q.op = "PATCH" -> IF invalidIds(db, q.tripId, q.ids) # {} THEN [q EXCEPT !.pc = "rejected"]
                                   ELSE [q EXCEPT !.pc = "begin"]
              [] q.op = "updateTrip" -> IF q.tripId \notin DOMAIN db.trips THEN [q EXCEPT !.pc = "absent", !.ret = Null]
                                        ELSE [q EXCEPT !.trip = db.trips[q.tripId], !.pc = "exec"]
              [] q.op = "saveConversation" -> [q EXCEPT !.existing = getConversation(db, q.tripId), !.pc = "exec"]]
    /\ UNCHANGED <<dialect, db, txOpen, snap, clock, nextId, started, faults>>

\* The statements of a call's transaction.
workOf(q, now) ==
    CASE q.op = "createStop" -> createStop(q.stopId, q.tripId, q.order, q.name, now, q.tag)
      [] q.op = "updateStop" -> updateStop(q.stopId, q.tripId, q.order, q.name, now, q.tag)
      [] q.op = "deleteStop" -> deleteStop(q.stopId, q.tripId, now, q.tag)
      [] q.op \in {"reorderStops", "PATCH"} -> reorderStops(q.tripId, q.ids, now, q.tag)

\* One statement of work runs against d (or is made to fail): the request after it.
afterStmt(q, d, todo, fail) ==
    IF fail THEN [q EXCEPT !.pc = "rollback", !.todo = todo]
    ELSE LET rest == restOf(d, todo)
         IN [q EXCEPT !.pc = IF rest = <<>> THEN "commit" ELSE "tx", !.todo = rest,
                      !.ret = IF todo[1].k = "delete" THEN rowCount(dialect, d, todo[1]) > 0 ELSE @]

\* SqliteAdapter.transaction up to its first suspension: BEGIN, then work's first
\* statement.  A BEGIN inside an open transaction throws, and the catch block
\* runs ROLLBACK on the shared connection at once.
\* PostgresAdapter.transaction: BEGIN is an HTTP call of its own and opens nothing.
TxBegin(r) ==
    /\ req[r].pc = "begin"
    /\ \E now \in clock .. Min(clock + 1, MaxClock), fail \in BOOLEAN :
         LET q == [req[r] EXCEPT !.now = now]
             todo == workOf(q, now)
             refused == ~(dialect = "sqlite" /\ txOpen) /\ violatesForeignKey(db, todo[1])
         IN /\ clock' = now
            /\ refused => fail
            /\ fail /\ ~refused => faults < MaxFaults
            /\ faults' = IF fail /\ ~refused THEN faults + 1 ELSE faults
            /\ IF dialect = "sqlite" /\ txOpen
               THEN /\ ~fail
                    /\ db' = snap
                    /\ txOpen' = FALSE
                    /\ snap' = snap
                    /\ req' = [req EXCEPT ![r] = [q EXCEPT !.pc = "failed", !.err = "begin"]]
               ELSE /\ txOpen' = (dialect = "sqlite")
                    /\ snap' = IF dialect = "sqlite" THEN db ELSE snap
                    /\ db' = IF fail THEN db ELSE execute(db, todo[1])
                    /\ req' = [req EXCEPT ![r] = afterStmt(q, db, todo, fail)]
    /\ UNCHANGED <<dialect, nextId, started>>

\* work's next statement, through the handle (the adapter itself).
TxStep(r) ==
    /\ req[r].pc = "tx"
    /\ \E fail \in BOOLEAN :
         /\ violatesForeignKey(db, req[r].todo[1]) => fail
         /\ fail /\ ~violatesForeignKey(db, req[r].todo[1]) => faults < MaxFaults
         /\ faults' = IF fail /\ ~violatesForeignKey(db, req[r].todo[1]) THEN faults + 1 ELSE faults
         /\ db' = IF fail THEN db ELSE execute(db, req[r].todo[1])
         /\ req' = [req EXCEPT ![r] = afterStmt(req[r], db, req[r].todo, fail)]
    /\ UNCHANGED <<dialect, txOpen, snap, clock, nextId, started>>

\* work has returned: COMMIT.  On SQLite a COMMIT with no transaction open throws,
\* and so does the ROLLBACK of the catch block.
TxCommit(r) ==
    /\ req[r].pc = "commit"
    /\ IF dialect = "sqlite" /\ ~txOpen
       THEN req' = [req EXCEPT ![r].pc = "failed", ![r].err = "rollback"]
       ELSE req' = [req EXCEPT ![r].pc = "done"]
    /\ txOpen' = FALSE
    /\ UNCHANGED <<dialect, db, snap, clock, nextId, started, faults>>

\* work has raised: ROLLBACK, then the error is thrown on.  On SQLite it restores
\* the rows of the connection's last BEGIN; over Neon's HTTP driver it undoes nothing.
TxRollback(r) ==
    /\ req[r].pc = "rollback"
    /\ IF dialect = "sqlite"
       THEN /\ db' = IF txOpen THEN snap ELSE db
            /\ req' = [req EXCEPT ![r].pc = "failed", ![r].err = IF txOpen THEN "work" ELSE "rollback"]
       ELSE /\ db' = db
            /\ req' = [req EXCEPT ![r].pc = "failed", ![r].err = "work"]
    /\ txOpen' = FALSE
    /\ UNCHANGED <<dialect, snap, clock, nextId, started, faults>>

\* The call has returned (or thrown) and its caller has gone on.
Return(r) ==
    /\ req[r].pc \in {"done", "failed", "absent", "rejected"}
    /\ req' = [req EXCEPT ![r] = Idle]
    /\ UNCHANGED <<dialect, db, txOpen, snap, clock, nextId, started, faults>>

\* A caller enters updateTrip with a patch of name and/or description.
CallUpdateTrip(r, t, name, description) ==
    /\ req' = [req EXCEPT ![r] = [Idle EXCEPT !.op = "updateTrip", !.pc = "read", !.tag = started + 1, !.tripId = t, !.name = name, !.description = description]]
    /\ UNCHANGED nextId

\* A caller enters deleteTrip.
CallDeleteTrip(r, t) ==
    /\ req' = [req EXCEPT ![r] = [Idle EXCEPT !.op = "deleteTrip", !.pc = "exec", !.tag = started + 1, !.tripId = t]]
    /\ UNCHANGED nextId

\* A caller enters saveConversation.
CallSaveConversation(r, t, messages) ==
    /\ req' = [req EXCEPT ![r] = [Idle EXCEPT !.op = "saveConversation", !.pc = "read", !.tag = started + 1, !.tripId = t, !.name = messages]]
    /\ UNCHANGED nextId

\* The one statement updateTrip, deleteTrip or saveConversation executes
\* (the new conversation's id is a uuid of its own).
statementOf(q, now) ==
    CASE q.op = "updateTrip" -> [k |-> "updateTrip", trip |-> q.tripId, name |-> orElse(q.name, q.trip.name), description |-> orElse(q.description, q.trip.description), at |-> now, by |-> q.tag]
      [] q.op = "deleteTrip" -> [k |-> "deleteTrip", trip |-> q.tripId]
      [] q.op = "saveConversation" -> IF q.existing THEN [k |-> "updateConversation", trip |-> q.tripId, name |-> q.name]
                                      ELSE [k |-> "insertConversation", id |-> q.tag, trip |-> q.tripId, name |-> q.name]

\* What the call returns after its statement.
returnOf(q, d, s, now) ==
    CASE q.op = "updateTrip" -> [name |-> s.name, description |-> s.description, updated_at |-> now]
      [] q.op = "deleteTrip" -> rowCount(dialect, d, s) > 0
      [] OTHER -> "void"

\* adapter.execute outside a transaction: one statement, then the call returns.
Execute(r) ==
    /\ req[r].pc = "exec"
    /\ \E now \in clock .. Min(clock + 1, MaxClock) :
         LET s == statementOf(req[r], now)
         IN /\ clock' = now
            /\ IF violatesForeignKey(db, s)
               THEN /\ db' = db
                    /\ req' = [req EXCEPT ![r].pc = "failed", ![r].err = "work"]
               ELSE /\ db' = execute(db, s)
                    /\ req' = [req EXCEPT ![r].pc = "done", ![r].now = now, ![r].ret = returnOf(req[r], db, s, now)]
    /\ UNCHANGED <<dialect, txOpen, snap, nextId, started, faults>>

\* A request on trips, conversations or stops starts in the first free slot.
CallAny(r, limit, ops) ==
    /\ req[r].pc = "idle"
    /\ \A x \in Slots : x < r => req[x].pc # "idle"
    /\ started < ops
    /\ Cardinality(InFlight) < limit
    /\ started' = started + 1
    /\ \/ \E t \in TripIds, name \in {NoName, "b"}, description \in {NoName, Null, "e"} : CallUpdateTrip(r, t, name, description)
       \/ \E t \in TripIds : CallDeleteTrip(r, t)
       \/ \E t \in TripIds, messages \in Names : CallSaveConversation(r, t, messages)
       \/ \E t \in TripIds : CallCreateStop(r, t, Undef)
       \/ \E id \in StopIds, name \in {NoName, "b"} : CallUpdateStop(r, id, Undef, name)
       \/ \E id \in StopIds : CallDeleteStop(r, id)
    /\ UNCHANGED <<dialect, db, txOpen, snap, clock, faults>>

\* The store after two createStop calls on trip 1.
InitRows == [trips |-> [t \in TripIds |-> [name |-> "a", description |-> "d", updated_at |-> 0, by |-> 0]], conversations |-> <<>>, stops |-> [s \in {1, 2} |-> [trip_id |-> 1, order |-> s - 1, name |-> "a"]]]

\* The adapter and the store before any request, holding `rows`.
StoreInit(rows) ==
    /\ dialect \in {"sqlite", "postgres"}
    /\ db = rows
    /\ txOpen = FALSE
    /\ snap = rows
    /\ clock = 0
    /\ nextId = Cardinality(StopRows(rows)) + 1
    /\ started = 0
    /\ faults = 0
    /\ req = [r \in Slots |-> Idle]

\* The schema is in place: initialisation ran before the first request.
SchemaReady ==
    /\ revision = "ensureSchema"
    /\ adapter = TRUE
    /\ schemaInitPromise = "resolved"
    /\ schemaInitialized = TRUE
    /\ ddlRuns = 1
    /\ caller = [c \in Callers |-> "idle"]

\* No chat request.
NoChat == [pc |-> "none"]

\* No settings request, no statement and no stop column is looked at.
NoEdge == settings = [pc |-> "none"] /\ issued = [pc |-> "none"] /\ stopFields = <<>>

Init == StoreInit(InitRows) /\ SchemaReady /\ chat = NoChat /\ NoEdge

Step(r) == Read(r) \/ TxBegin(r) \/ TxStep(r) \/ TxCommit(r) \/ TxRollback(r) \/ Return(r)

Next == (\E r \in Slots : Call(r, MaxReqs, MaxOps) \/ Step(r)) /\ UNCHANGED <<schemaVars, chat, edgeVars>>

\* Requests on the shared adapter, interleaved at their suspension points.
Spec == Init /\ [][Next]_vars

NextSeq == (\E r \in Slots : Call(r, 1, MaxSeqOps) \/ Step(r)) /\ UNCHANGED <<schemaVars, chat, edgeVars>>

\* One request at a time.
SpecSeq == Init /\ [][NextSeq]_vars

NextTripsSeq == (\E r \in Slots : CallAny(r, 1, MaxSeqOps) \/ Step(r) \/ Execute(r)) /\ UNCHANGED <<schemaVars, chat, edgeVars>>

\* Requests on trips, conversations and stops, one at a time.
SpecTripsSeq == Init /\ [][NextTripsSeq]_vars

NextTrips == (\E r \in Slots : CallAny(r, MaxReqs, MaxOps) \/ Step(r) \/ Execute(r)) /\ UNCHANGED <<schemaVars, chat, edgeVars>>

\* Requests on trips, conversations and stops, interleaved.
SpecTrips == Init /\ [][NextTrips]_vars

\* The store with two trips and no stop.
EmptyRows == [trips |-> [t \in TripIds |-> [name |-> "a", description |-> "d", updated_at |-> 0, by |-> 0]], conversations |-> <<>>, stops |-> <<>>]

InitEmpty == StoreInit(EmptyRows) /\ SchemaReady /\ chat = NoChat /\ NoEdge

\* One request at a time, from trips without stops.
SpecEmpty == InitEmpty /\ [][NextSeq]_vars

\* Requests that leave the order to the repository, interleaved, from trips without stops.
SpecEmptyTrips == InitEmpty /\ [][NextTrips]_vars


---------------------------------------------------------------------------
(* Lazy schema initialisation *)

\* initSchema up to its first suspension, entered with the flag `done`:
\* SQLite runs the DDL in one exec and sets the flag at once; Postgres starts
\* the first CREATE TABLE and sets the flag only after the last statement.
\* [runs: DDL runs started, flag: the flag after the block, pending: DDL in flight]
initSchema(d, done) ==
    IF done THEN [runs |-> 0, flag |-> TRUE, pending |-> FALSE]
    ELSE IF d = "sqlite" THEN [runs |-> 1, flag |-> TRUE, pending |-> FALSE]
    ELSE [runs |-> 1, flag |-> FALSE, pending |-> TRUE]

\* getAdapter() of the ensureSchema revision: the first call creates the
\* adapter and caches the promise of its one initSchema() call.
getAdapter ==
    IF adapter THEN /\ UNCHANGED <<schemaInitPromise, schemaInitialized, ddlRuns>>
    ELSE LET i == initSchema(dialect, schemaInitialized)
         IN /\ schemaInitPromise' = IF i.pending THEN "pending" ELSE "resolved"
            /\ schemaInitialized' = i.flag
            /\ ddlRuns' = ddlRuns + i.runs

\* A repository function of the ensureSchema revision is called:
\* await ensureSchema() awaits the cached promise.
ensureSchema(c) ==
    /\ revision = "ensureSchema"
    /\ caller[c] = "idle"
    /\ getAdapter
    /\ adapter' = TRUE
    /\ caller' = [caller EXCEPT ![c] = "awaitPromise"]
    /\ UNCHANGED <<revision, dbVars, chat, edgeVars>>

\* The cached promise has resolved: the caller goes on to its query.
PromiseResumes(c) ==
    /\ caller[c] = "awaitPromise"
    /\ schemaInitPromise = "resolved"
    /\ caller' = [caller EXCEPT ![c] = "query"]
    /\ UNCHANGED <<revision, adapter, schemaInitPromise, schemaInitialized, ddlRuns, dbVars, chat, edgeVars>>

\* The one initSchema() call behind the promise finishes its DDL.
PromiseResolves ==
    /\ schemaInitPromise = "pending"
    /\ schemaInitPromise' = "resolved"
    /\ schemaInitialized' = TRUE
    /\ UNCHANGED <<revision, adapter, ddlRuns, caller, dbVars, chat, edgeVars>>

\* A repository function of the per-call revision is called:
\* getAdapter(), then await adapter.initSchema().
CallInitSchema(c) ==
    /\ revision = "perCall"
    /\ caller[c] = "idle"
    /\ LET i == initSchema(dialect, schemaInitialized)
       IN /\ schemaInitialized' = i.flag
          /\ ddlRuns' = ddlRuns + i.runs
          /\ caller' = [caller EXCEPT ![c] = IF i.pending THEN "ddl" ELSE "query"]
    /\ adapter' = TRUE
    /\ UNCHANGED <<revision, schemaInitPromise, dbVars, chat, edgeVars>>

\* A caller's own initSchema() finishes its DDL and sets the flag.
InitSchemaReturns(c) ==
    /\ caller[c] = "ddl"
    /\ schemaInitialized' = TRUE
    /\ caller' = [caller EXCEPT ![c] = "query"]
    /\ UNCHANGED <<revision, adapter, schemaInitPromise, ddlRuns, dbVars, chat, edgeVars>>

\* The caller's real query runs and the call returns.
Query(c) ==
    /\ caller[c] = "query"
    /\ caller' = [caller EXCEPT ![c] = "returned"]
    /\ UNCHANGED <<revision, adapter, schemaInitPromise, schemaInitialized, ddlRuns, dbVars, chat, edgeVars>>

\* A fresh process: no adapter yet.
InitFresh ==
    /\ StoreInit(InitRows)
    /\ revision \in {"perCall", "ensureSchema"}
    /\ adapter = FALSE
    /\ schemaInitPromise = "null"
    /\ schemaInitialized = FALSE
    /\ ddlRuns = 0
    /\ caller = [c \in Callers |-> "idle"]
    /\ chat = NoChat
    /\ NoEdge

NextSchema == PromiseResolves \/ \E c \in Callers : ensureSchema(c) \/ PromiseResumes(c) \/ CallInitSchema(c) \/ InitSchemaReturns(c) \/ Query(c)

\* The first repository calls of a process, interleaved.
SpecSchema == InitFresh /\ [][NextSchema]_vars

\* C5: the schema DDL runs at most once per adapter instance, also when
\* several repository calls start before initialisation has finished.
C5_DdlRunsAtMostOnce == ddlRuns <= 1

---------------------------------------------------------------------------
(* The assistant tool loop: POST /api/trips/[id]/chat *)

TextBlock == [type |-> "text", id |-> 0, name |-> "text", stop_id |-> 0, stop_ids |-> <<>>]

ToolUse(name, stop_id, stop_ids) == [type |-> "tool_use", id |-> 0, name |-> name, stop_id |-> stop_id, stop_ids |-> stop_ids]

\* The tool invocations a model may emit: the five tools (reorder_stops with
\* two different ids), and a name that is none of them.
ToolUses ==
    {ToolUse(n, 0, <<>>) : n \in {"get_trip_info", "add_stop", "other"}}
    \cup {ToolUse(n, s, <<>>) : n \in {"update_stop", "remove_stop"}, s \in StopIds}
    \cup {ToolUse("reorder_stops", 0, ids) : ids \in {p \in IdLists : Len(p) = MaxIdsLen /\ p[1] # p[2]}}

\* The responses a model call may return, each block carrying its own id.
Responses == {[i \in 1 .. Len(q) |-> [q[i] EXCEPT !.id = i]] : q \in SeqsUpTo({TextBlock} \cup ToolUses, MaxBlocks)}

\* The lengths of the history a chat request may arrive with: one that leaves
\* room for MaxTurns model calls, and those at the cap.
StartLens == {MsgCap + 1 - 2 * MaxTurns} \cup ((MsgCap - 1) .. (MsgCap + 1))

\* How many blocks of a response invoke tool `name`.
CountOf(content, name) == Cardinality({i \in 1 .. Len(content) : content[i].name = name})

\* The ids of a stop listing.
IdsOf(stops) == {stops[i].id : i \in 1 .. Len(stops)}

\* A loop without its safety limit.
noSafetyLimit(len) == FALSE

\* The loop's safety limit.
safetyLimit(len) == len > MsgCap

\* claudeMessages after the assistant turn and the tool-results turn are pushed.
pushTurn(len) == len + 2

\* Results collected newest first.
unshiftResult(results, r) == <<r>> \o results

\* toolResults.push(...)
pushResult(results, r) == Append(results, r)

\* A failure outcome that also reports what the loop had done so far.
partialOutcome(c, err) == [error |-> err, status |-> 500, response |-> c.finalResponse, toolCalls |-> c.toolCalls, stops |-> c.currentStops]

\* The failure outcome of the catch block: an error and a status, nothing else.
catchOutcome(c, err) == [error |-> err, status |-> 500]

\* The success outcome.
okOutcome(c) == [response |-> c.finalResponse, toolCalls |-> c.toolCalls, stops |-> c.currentStops]

\* The chat request for trip t at the top of the loop: body parsed, key and
\* trip found, currentStops read from the store.
ChatStart(t, len, d) == [pc |-> "call", tripId |-> t, len |-> len, content |-> <<>>, bi |-> 1, hasToolUse |-> FALSE, toolResults |-> <<>>, executed |-> <<>>, pushed |-> <<>>, currentStops |-> StopList(d, t), toolCalls |-> 0, finalResponse |-> "", modelCalls |-> 0, outcome |-> [status |-> 0]]

\* anthropic.messages.create returns a response.
ModelCall ==
    /\ chat.pc = "call"
    /\ \E content \in Responses :
         /\ CountOf(content, "add_stop") <= MaxStops + 1 - nextId
         /\ chat' = [chat EXCEPT !.pc = "blocks", !.content = content, !.bi = 1, !.hasToolUse = FALSE, !.toolResults = <<>>, !.executed = <<>>, !.pushed = <<>>, !.modelCalls = @ + 1]
    /\ UNCHANGED <<dbVars, schemaVars, edgeVars>>

\* anthropic.messages.create throws: the catch block answers with the error.
ModelCallFails ==
    /\ chat.pc = "call"
    /\ chat' = [chat EXCEPT !.pc = "failed", !.outcome = catchOutcome(chat, "api")]
    /\ UNCHANGED <<dbVars, schemaVars, edgeVars>>

\* A text block: its text becomes the final response.
Text ==
    /\ chat.pc = "blocks"
    /\ chat.bi <= Len(chat.content)
    /\ chat.content[chat.bi].type = "text"
    /\ chat' = [chat EXCEPT !.finalResponse = "text", !.bi = @ + 1]
    /\ UNCHANGED <<dbVars, schemaVars, edgeVars>>

\* remove_stop without the look-up in currentStops.
removeUnchecked(block, currentStops) ==
    CASE block.name = "add_stop" -> "createStop"
      [] block.name = "update_stop" -> "updateStop"
      [] block.name = "remove_stop" -> "deleteStop"
      [] block.name = "reorder_stops" -> "reorderStops"
      [] OTHER -> "none"

\* handleToolCall up to its repository call: the call it makes, if any.
handleToolCall(block, currentStops) ==
    CASE block.name = "add_stop" -> "createStop"
      [] block.name = "update_stop" -> "updateStop"
      [] block.name = "remove_stop" -> IF block.stop_id \in IdsOf(currentStops) THEN "deleteStop" ELSE "none"
      [] block.name = "reorder_stops" -> "reorderStops"
      [] OTHER -> "none"

\* A tool_use block: handleToolCall is entered with currentStops.
ToolDispatch ==
    /\ chat.pc = "blocks"
    /\ chat.bi <= Len(chat.content)
    /\ chat.content[chat.bi].type = "tool_use"
    /\ LET block == chat.content[chat.bi]
           call == handleToolCall(block, chat.currentStops)
       IN /\ CASE call = "createStop" -> CallCreateStop(1, chat.tripId, Undef)
                [] call = "updateStop" -> CallUpdateStop(1, block.stop_id, Undef, "b")
                [] call = "deleteStop" -> CallDeleteStop(1, block.stop_id)
                [] call = "reorderStops" -> CallReorderStops(1, chat.tripId, block.stop_ids)
                [] OTHER -> UNCHANGED <<req, nextId>>
          /\ started' = IF call = "none" THEN started ELSE started + 1
          /\ chat' = [chat EXCEPT !.pc = "tool", !.hasToolUse = TRUE, !.executed = Append(@, block.id)]
    /\ UNCHANGED <<dialect, db, txOpen, snap, clock, faults, schemaVars, edgeVars>>

\* The text handleToolCall returns.
toolResult(block, q) ==
    CASE block.name = "get_trip_info" -> "info"
      [] block.name = "add_stop" -> "added"
      [] block.name = "update_stop" -> IF q.pc = "absent" THEN "not found" ELSE "updated"
      [] block.name = "remove_stop" -> IF q.pc = "idle" THEN "not found" ELSE "removed"
      [] block.name = "reorder_stops" -> "reordered"
      [] OTHER -> "unknown tool"

\* add_stop returning no stops.
returnsStopsUnlessAdded(block, q) == block.name \in {"update_stop", "remove_stop", "reorder_stops"} /\ q.pc # "absent" /\ q.pc # "idle"

\* Whether handleToolCall returns the trip's stops, read afresh.
returnsStops(block, q) == block.name \in {"add_stop", "update_stop", "remove_stop", "reorder_stops"} /\ toolResult(block, q) # "not found"

\* handleToolCall returns: the result is recorded and currentStops replaced.
ToolReturn ==
    /\ chat.pc = "tool"
    /\ req[1].pc \in {"idle", "done", "absent"}
    /\ LET block == chat.content[chat.bi]
           res == toolResult(block, req[1])
       IN chat' = [chat EXCEPT !.pc = "blocks", !.bi = @ + 1, !.toolCalls = @ + 1,
                                !.currentStops = IF returnsStops(block, req[1]) THEN StopList(db, chat.tripId) ELSE @,
                                !.toolResults = pushResult(@, [tool_use_id |-> block.id, content |-> res])]
    /\ req' = [req EXCEPT ![1] = Idle]
    /\ UNCHANGED <<dialect, db, txOpen, snap, clock, nextId, started, faults, schemaVars, edgeVars>>

\* The repository call of a tool throws: the catch block answers 500.
ToolThrows ==
    /\ chat.pc = "tool"
    /\ req[1].pc = "failed"
    /\ chat' = [chat EXCEPT !.pc = "failed", !.outcome = catchOutcome(chat, "failed")]
    /\ req' = [req EXCEPT ![1] = Idle]
    /\ UNCHANGED <<dialect, db, txOpen, snap, clock, nextId, started, faults, schemaVars, edgeVars>>

\* The response's blocks are processed: the turns are pushed and the loop
\* goes round or ends.
EndTurn ==
    /\ chat.pc = "blocks"
    /\ chat.bi > Len(chat.content)
    /\ LET len == IF chat.hasToolUse THEN pushTurn(chat.len) ELSE chat.len
           continueLoop == chat.hasToolUse /\ ~safetyLimit(len)
           c == [chat EXCEPT !.len = len, !.pushed = IF chat.hasToolUse THEN chat.toolResults ELSE @]
       IN chat' = IF continueLoop THEN [c EXCEPT !.pc = "call"] ELSE [c EXCEPT !.pc = "done", !.outcome = okOutcome(c)]
    /\ UNCHANGED <<dbVars, schemaVars, edgeVars>>

\* The store a chat starts on: stop 1 in trip 1, stop 2 in trip 2.
ChatRows == [trips |-> [t \in TripIds |-> [name |-> "a", description |-> "d", updated_at |-> 0, by |-> 0]], conversations |-> <<>>, stops |-> [s \in {1, 2} |-> [trip_id |-> s, order |-> 0, name |-> "a"]]]

InitChat ==
    /\ StoreInit(ChatRows)
    /\ SchemaReady
    /\ \E len \in StartLens : chat = ChatStart(1, len, ChatRows)
    /\ NoEdge

\* The repository call a tool has made runs on the adapter.
ToolStep == (Read(1) \/ TxBegin(1) \/ TxStep(1) \/ TxCommit(1) \/ TxRollback(1)) /\ UNCHANGED <<schemaVars, chat, edgeVars>>

NextChat == ModelCall \/ ModelCallFails \/ Text \/ ToolDispatch \/ ToolStep \/ ToolReturn \/ ToolThrows \/ EndTurn

\* One chat request, no other writer.
SpecChat == InitChat /\ [][NextChat]_vars

---------------------------------------------------------------------------
(* The settings route, over the synchronous store of lib/db.ts.  Two         *)
(* revisions of the route exist: "route.ts" masks the key, "part_003"        *)
(* returns it.  A string is a sequence of one-character strings; a value     *)
(* that may be null is a set of at most one element.                         *)

MaxTail == 9                \* characters a key has after its prefix
HeadLen == 7
TailLen == 4
ShortKey == 15
MAX_API_KEY_LENGTH == 200

KeyPrefix == <<"s", "k", "-", "a", "n", "t", "-">>
KeyChars == {"x", "y"}
Keys == {KeyPrefix \o t : t \in UNION {[1..n -> KeyChars] : n \in 0..MaxTail}}

\* What a client may send as body.apiKey.
Bodies == Keys \cup {<<>>, <<" ">>, <<"x">>, <<" ">> \o KeyPrefix \o <<"y", " ">>}

RECURSIVE trim(_)
trim(str) ==
    IF str = <<>> THEN str
    ELSE IF Head(str) = " " THEN trim(Tail(str))
    ELSE IF str[Len(str)] = " " THEN trim(SubSeq(str, 1, Len(str) - 1))
    ELSE str

startsWith(str, prefix) == Len(str) >= Len(prefix) /\ SubSeq(str, 1, Len(prefix)) = prefix

\* str.slice(0, n) and str.slice(-n)
sliceHead(str, n) == SubSeq(str, 1, Min(n, Len(str)))
sliceTail(str, n) == SubSeq(str, Len(str) - Min(n, Len(str)) + 1, Len(str))

maskApiKey(key) ==
    IF Len(key) <= ShortKey THEN <<"*", "*", "*">>
    ELSE sliceHead(key, HeadLen) \o <<".", ".", ".">> \o sliceTail(key, TailLen)

\* The body of the GET response of each revision, for the rows of the
\* anthropic_api_key setting (no row, or one).
SettingsResponse(route, rows) ==
    IF route = "route.ts"
    THEN [kind |-> "GET", status |-> 200, hasApiKey |-> rows # {},
          keyPreview |-> {maskApiKey(apiKey) : apiKey \in rows}]
    ELSE [kind |-> "GET", status |-> 200, hasApiKey |-> rows # {},
          apiKey |-> IF rows = {} THEN {<<>>} ELSE rows]

SettingsGET ==
    /\ settings.pc = "idle"
    /\ settings' = [settings EXCEPT !.response = SettingsResponse(settings.route, settings.rows)]
    /\ UNCHANGED <<dbVars, schemaVars, chat, issued, stopFields>>

SettingsPOST ==
    /\ settings.pc = "idle"
    /\ \E body \in Bodies :
        LET apiKey == trim(body)
            refused == [settings EXCEPT !.response = [kind |-> "POST", status |-> 400]]
            stored == [settings EXCEPT !.rows = IF apiKey # <<>> THEN {apiKey} ELSE {},
                                       !.response = [kind |-> "POST", status |-> 200]]
        IN  settings' =
                IF settings.route = "part_003" THEN stored
                ELSE IF Len(apiKey) > MAX_API_KEY_LENGTH THEN refused
                ELSE IF apiKey # <<>> /\ ~startsWith(apiKey, KeyPrefix) THEN refused
                ELSE stored
    /\ UNCHANGED <<dbVars, schemaVars, chat, issued, stopFields>>

InitSettings ==
    /\ StoreInit(InitRows) /\ SchemaReady /\ chat = NoChat
    /\ issued = [pc |-> "none"] /\ stopFields = <<>>
    /\ \E route \in {"route.ts", "part_003"} :
        settings = [pc |-> "idle", route |-> route, rows |-> {}, response |-> [kind |-> "none"]]

NextSettings == SettingsGET \/ SettingsPOST

\* The settings route: any sequence of POSTs and GETs.
SpecSettings == InitSettings /\ [][NextSettings]_vars

---------------------------------------------------------------------------
(* Placeholders: the repository writes $1, $2, ... and each adapter binds    *)
(* the parameters.  A statement is the sequence of the placeholder numbers   *)
(* in its text, in textual order; 0 stands for SQLite's anonymous "?".       *)

MaxHoles == 4               \* placeholders of the longest statement
Values == {"k", "v", "w"}

\* Every statement of the repository but one numbers its placeholders
\* 1, 2, ..., n in textual order (updateStop builds its own with
\* paramIndex++); setSetting's upsert is $1, $2, $2 with two parameters.
setSettingSql == [holes |-> <<1, 2, 2>>, arity |-> 2]
Statements == {[holes |-> [i \in 1..n |-> i], arity |-> n] : n \in 1..MaxHoles} \cup {setSettingSql}

toSqlitePlaceholders(holes) == [i \in 1..Len(holes) |-> 0]

\* Postgres binds $k to the k-th parameter.
bindNumbered(holes, params) == [ok |-> TRUE, values |-> [i \in 1..Len(holes) |-> params[holes[i]]]]

\* better-sqlite3 binds the i-th "?" to the i-th parameter and throws a
\* RangeError when the counts differ.
bindAnonymous(holes, params) ==
    IF Len(holes) # Len(params) THEN [ok |-> FALSE, values |-> <<>>]
    ELSE [ok |-> TRUE, values |-> [i \in 1..Len(holes) |-> params[i]]]

run(dl, holes, params) ==
    IF dl = "sqlite" THEN bindAnonymous(toSqlitePlaceholders(holes), params)
    ELSE bindNumbered(holes, params)

\* The repository hands a statement and its parameters to the adapter.
Issue ==
    /\ issued.pc \in {"none", "bound"}
    /\ \E st \in Statements : \E params \in [1..st.arity -> Values] :
        issued' = [pc |-> "issued", sql |-> st.holes, params |-> params]
    /\ UNCHANGED <<dbVars, schemaVars, chat, settings, stopFields>>

\* The adapter prepares and runs it.
Run ==
    /\ issued.pc = "issued"
    /\ issued' = [pc |-> "bound", sql |-> issued.sql, params |-> issued.params,
                  result |-> run(dialect, issued.sql, issued.params)]
    /\ UNCHANGED <<dbVars, schemaVars, chat, settings, stopFields>>

NextStatements == Issue \/ Run

\* Statements issued one after another on either adapter.
SpecStatements == Init /\ [][NextStatements]_vars

---------------------------------------------------------------------------
(* The validated columns of a stop, and the four ways a client's or the      *)
(* model's input reaches createStop and updateStop.  A column or an input    *)
(* field that may be null or undefined is a set of at most one element.      *)

MaxFieldStops == 2          \* stops created
LatMax == 90
LngMax == 180
DurationMax == 365

StopTypes == {"base_camp", "waypoint", "stop", "transport"}
DurationUnits == {"hours", "nights", "days"}

\* What a request body or a tool input may carry.
TypeInputs == {"stop", "bogus"}
LatInputs == {-LatMax, LatMax, LatMax + 1}
LngInputs == {-LngMax - 1, LngMax}
DurationInputs == {0, DurationMax + 1}
UnitInputs == {"nights", "weeks"}

Optional(S) == {{}} \cup {{x} : x \in S}

CreateInputs == [type : TypeInputs, latitude : LatInputs, longitude : LngInputs,
                 duration_value : Optional(DurationInputs), duration_unit : Optional(UnitInputs)]
UpdateInputs == [type : Optional(TypeInputs), latitude : Optional(LatInputs), longitude : Optional(LngInputs),
                 duration_value : Optional(DurationInputs), duration_unit : Optional(UnitInputs)]

createStopSchema(body) ==
    /\ body.type \in StopTypes
    /\ body.latitude \in -LatMax..LatMax
    /\ body.longitude \in -LngMax..LngMax
    /\ body.duration_value \subseteq 0..DurationMax
    /\ body.duration_unit \subseteq DurationUnits

validateCoordinates(lat, lng) == lat \in -LatMax..LatMax /\ lng \in -LngMax..LngMax

\* The checks of PUT /api/stops/[id]: each field is checked when provided,
\* the coordinates against the existing row's when only one is provided.
validatePUT(existing, body) ==
    /\ body.type \subseteq StopTypes
    /\ body.latitude \cup body.longitude # {} =>
        \A lat \in IF body.latitude # {} THEN body.latitude ELSE {existing.latitude} :
        \A lng \in IF body.longitude # {} THEN body.longitude ELSE {existing.longitude} :
            validateCoordinates(lat, lng)
    /\ body.duration_unit \subseteq DurationUnits
    /\ body.duration_value \subseteq 0..DurationMax

\* The CHECK constraints of the stops table.
checkConstraints(row) == row.type \in StopTypes /\ row.duration_unit \subseteq DurationUnits

\* The row createStop inserts, and the row updateStop leaves.
insertedRow(data) == data
take(given, kept) == IF given # {} THEN CHOOSE x \in given : TRUE ELSE kept
updatedRow(row, updates) ==
    [type |-> take(updates.type, row.type),
     latitude |-> take(updates.latitude, row.latitude),
     longitude |-> take(updates.longitude, row.longitude),
     duration_value |-> IF updates.duration_value # {} THEN updates.duration_value ELSE row.duration_value,
     duration_unit |-> IF updates.duration_unit # {} THEN updates.duration_unit ELSE row.duration_unit]

\* The statement runs unless a constraint refuses it.
Insert(row) ==
    stopFields' = IF checkConstraints(row) THEN Append(stopFields, row) ELSE stopFields
Update(id, row) ==
    stopFields' = IF checkConstraints(row) THEN [stopFields EXCEPT ![id] = row] ELSE stopFields

\* POST /api/trips/[id]/stops
StopsPOST ==
    /\ Len(stopFields) < MaxFieldStops
    /\ \E body \in CreateInputs :
        IF createStopSchema(body) THEN Insert(insertedRow(body)) ELSE UNCHANGED stopFields
    /\ UNCHANGED <<dbVars, schemaVars, chat, settings, issued>>

\* PUT /api/stops/[id]
StopsPUT ==
    /\ \E id \in DOMAIN stopFields : \E body \in UpdateInputs :
        IF validatePUT(stopFields[id], body)
        THEN Update(id, updatedRow(stopFields[id], body)) ELSE UNCHANGED stopFields
    /\ UNCHANGED <<dbVars, schemaVars, chat, settings, issued>>

\* The assistant's add_stop tool: the model's input goes to createStop as it is.
AddStopTool ==
    /\ Len(stopFields) < MaxFieldStops
    /\ \E input \in CreateInputs : Insert(insertedRow(input))
    /\ UNCHANGED <<dbVars, schemaVars, chat, settings, issued>>

\* The assistant's update_stop tool: the model's input goes to updateStop as it is.
UpdateStopTool ==
    /\ \E id \in DOMAIN stopFields : \E updates \in UpdateInputs :
        Update(id, updatedRow(stopFields[id], updates))
    /\ UNCHANGED <<dbVars, schemaVars, chat, settings, issued>>

NextFields == StopsPOST \/ StopsPUT \/ AddStopTool \/ UpdateStopTool

\* Stops created and updated over HTTP and by the assistant.
SpecFields == Init /\ [][NextFields]_vars

\* The same, over HTTP only.
NextHttpFields == StopsPOST \/ StopsPUT
SpecHttpFields == Init /\ [][NextHttpFields]_vars

---------------------------------------------------------------------------
(* Claims about transactions and reorder *)

\* A createStop whose INSERT ran and whose trip UPDATE then failed.
FailedAfterInsert(r) == req[r].op = "createStop" /\ req[r].pc = "failed" /\ req[r].err = "work" /\ Len(req[r].todo) = 1

\* C1: when work has issued a write and then raises, none of its writes is
\* observable once transaction() has returned: a createStop whose INSERT ran
\* and whose trip UPDATE failed leaves the stop absent.
C1_RollbackHidesWrites == \A r \in Slots : FailedAfterInsert(r) => req[r].stopId \notin StopRows(db)

\* The stop rows of trip t, as any query on the adapter sees them.
VisibleStops(d, t) == [s \in TripStops(d, t) |-> d.stops[s]]

\* C2: a stop-row change and the parent trip's updated_at refresh are atomic:
\* no step makes a change to a trip's stop rows visible to the other
\* repository calls without that trip's updated_at being written in the same step.
C2_StopWriteAndRefreshAtomic == [][\A t \in TripIds : VisibleStops(db', t) # VisibleStops(db, t) => db'.trips[t] # db.trips[t]]_vars

\* ids lists every stop of trip t exactly once.
IsPermutationOf(ids, S) == Len(ids) = Cardinality(S) /\ {ids[i] : i \in 1 .. Len(ids)} = S

\* A reorder of trip t (through reorderStops or the route) that has completed.
ReorderDone(r) == req[r].op \in {"reorderStops", "PATCH"} /\ req[r].pc = "done"

\* C3: after reorderStops(tripId, ids), ids a permutation of all the trip's
\* stop ids, listing the trip's stops returns them in exactly the supplied
\* sequence and the stop at index i has order i (0-based).
C3_ReorderYieldsSequence == \A r \in Slots : ReorderDone(r) /\ IsPermutationOf(req[r].ids, TripStops(db, req[r].tripId)) => getStopsByTripId(db, req[r].tripId) = req[r].ids /\ \A i \in 1 .. Len(req[r].ids) : db.stops[req[r].ids[i]].order = i - 1

\* C3's case: a completed reorder of two stops that reversed them.
C3_Witness == \E r \in Slots : ReorderDone(r) /\ req[r].ids = <<2, 1>> /\ req[r].tripId = 1 /\ TripStops(db, 1) = {1, 2} /\ db.stops[2].order = 0 /\ db.stops[1].order = 1

\* The order values of trip t are exactly 0..N-1, each once.
DenseOrders(d, t) == /\ {d.stops[s].order : s \in TripStops(d, t)} = 0 .. Cardinality(TripStops(d, t)) - 1
                     /\ \A s, u \in TripStops(d, t) : d.stops[s].order = d.stops[u].order => s = u

\* C4: after a reorder accepted by PATCH /api/trips/[id]/stops has completed,
\* the order values of the trip's stops are a gap-free permutation of 0..N-1.
C4_PatchLeavesDenseOrders == \A r \in Slots : req[r].op = "PATCH" /\ req[r].pc = "done" => DenseOrders(db, req[r].tripId)

---------------------------------------------------------------------------
(* Claims about the assistant tool loop *)

\* Model calls the loop can still make from its top with a history of len turns.
CallsLeft(len) == IF len > MsgCap THEN 1 ELSE (MsgCap - len) \div 2 + 1

\* Steps a repository call can still take.
StepsLeft(q) ==
    CASE q.pc = "read" -> MaxIdsLen + 4
      [] q.pc = "begin" -> MaxIdsLen + 3
      [] q.pc = "tx" -> 1 + Len(q.todo)
      [] q.pc \in {"commit", "rollback"} -> 1
      [] OTHER -> 0

BlockSteps == MaxIdsLen + 7
TurnSteps == MaxBlocks * BlockSteps + 2

\* A bound on the steps the loop can still take.
Variant(c, q) ==
    CASE c.pc = "call" -> CallsLeft(c.len) * TurnSteps
      [] c.pc = "blocks" -> (CallsLeft(c.len) - 1) * TurnSteps + (Len(c.content) + 1 - c.bi) * BlockSteps + 1
      [] c.pc = "tool" -> (CallsLeft(c.len) - 1) * TurnSteps + (Len(c.content) - c.bi) * BlockSteps + 2 + StepsLeft(q)
      [] OTHER -> 0

\* C6: the tool loop terminates whatever the model emits: every step of the
\* request lowers a natural-number bound on the steps left, and the loop ends
\* only at a turn without tool use, over the message cap, or on an error.
C6_LoopTerminates ==
    [][/\ Variant(chat', req'[1]) < Variant(chat, req[1])
       /\ Variant(chat', req'[1]) >= 0
       /\ chat'.pc = "done" => ~chat'.hasToolUse \/ chat'.len > MsgCap]_vars

\* The loop ended at the cap after MaxTurns turns that all used tools.
C6_Witness == chat.pc = "done" /\ chat.hasToolUse /\ chat.modelCalls = MaxTurns /\ chat.len > MsgCap

\* The ids of the tool_use blocks among the first n blocks, in order.
ToolIds(content, n) == LET used == SelectSeq(SubSeq(content, 1, n), LAMBDA b : b.type = "tool_use") IN [i \in 1 .. Len(used) |-> used[i].id]

ResultIds(results) == [i \in 1 .. Len(results) |-> results[i].tool_use_id]

\* C7: within a turn the tools run one at a time in the order emitted, the
\* results are collected and pushed in that order, each under its invocation's
\* id, and the next model call comes only after all of them.
C7_ToolsInOrder ==
    /\ \A r \in Slots : req[r].pc # "idle" => r = 1 /\ chat.pc = "tool"
    /\ chat.pc = "blocks" => /\ ResultIds(chat.toolResults) = ToolIds(chat.content, chat.bi - 1)
                             /\ chat.executed = ToolIds(chat.content, chat.bi - 1)
    /\ chat.pc = "tool" => /\ ResultIds(chat.toolResults) = ToolIds(chat.content, chat.bi - 1)
                           /\ chat.executed = ToolIds(chat.content, chat.bi)
    /\ chat.pc \in {"call", "done"} /\ chat.hasToolUse => /\ ResultIds(chat.pushed) = ToolIds(chat.content, Len(chat.content))
                                                          /\ chat.executed = ToolIds(chat.content, Len(chat.content))

\* The second tool of a second turn is running.
C7_Witness == chat.pc = "tool" /\ chat.modelCalls = 2 /\ Len(chat.executed) = 2 /\ Len(chat.toolResults) = 1 /\ req[1].pc = "tx"

\* C8: whenever a tool may be dispatched, currentStops is the store's listing
\* of the trip's stops.
C8_CurrentStopsFresh == chat.pc \in {"call", "blocks"} => chat.currentStops = StopList(db, chat.tripId)

\* add_stop, then remove_stop of the new stop in the same turn: the stop is gone.
C8_Witness ==
    /\ chat.pc = "blocks"
    /\ chat.bi = 3
    /\ chat.content[1].name = "add_stop"
    /\ chat.content[2].name = "remove_stop"
    /\ chat.content[2].stop_id = 3
    /\ chat.toolResults[2].content = "removed"
    /\ 3 \notin StopRows(db)

\* C9: a failing model call ends the request with the bare error and leaves
\* the store as the earlier tool calls left it; nothing happens after it.
C9_ModelFailureAborts ==
    [][/\ chat.pc = "call" /\ chat'.pc = "failed" => db' = db /\ DOMAIN chat'.outcome = {"error", "status"}
       /\ chat.pc = "failed" => db' = db /\ chat' = chat /\ req' = req]_vars

\* The model call of the second turn failed; the stop added in the first is there.
C9_Witness == chat.pc = "failed" /\ chat.outcome.error = "api" /\ chat.modelCalls = 1 /\ chat.toolCalls = 1 /\ 3 \in StopRows(db)

\* C10: no step of a chat for trip T changes a stop of another trip.
C10_OtherTripsUntouched == [][\A s \in StopRows(db) : db.stops[s].trip_id # chat.tripId => s \in StopRows(db') /\ db'.stops[s] = db.stops[s]]_vars

---------------------------------------------------------------------------
(* Claims about timestamps, orders and the boundary *)

\* C11: while every stop mutation commits (no statement fails, no call is
\* rolled back), no step lowers a trip's stored updated_at.
C11_UpdatedAtNeverDecreases ==
    [][faults' = 0 /\ (\A r \in Slots : req'[r].pc # "failed") => \A t \in TripIds : db'.trips[t].updated_at >= db.trips[t].updated_at]_vars

\* C12: once every call has returned, no two stops of a trip share an order.
C12_OrdersUnique ==
    (\A r \in Slots : req[r].pc = "idle") => \A t \in TripIds : \A s, u \in TripStops(db, t) : s # u => db.stops[s].order # db.stops[u].order

\* n is one more than the largest order of trip t, or 0 for a trip without stops.
IsNextOrder(n, d, t) ==
    IF TripStops(d, t) = {} THEN n = 0
    ELSE /\ \E s \in TripStops(d, t) : d.stops[s].order = n - 1
         /\ \A s \in TripStops(d, t) : d.stops[s].order < n

\* C13: createStop without an order takes the trip's largest order plus one
\* (0 for a trip without stops), and inserts the stop with that order.
C13_CreateAssignsNextOrder ==
    [][\A r \in Slots : req[r].op = "createStop" =>
          /\ req[r].pc = "read" /\ req'[r].pc = "begin" => IsNextOrder(req'[r].order, db, req[r].tripId)
          /\ req[r].pc = "begin" /\ req'[r].pc \in {"tx", "commit"} =>
               /\ req[r].stopId \in TripStops(db', req[r].tripId)
               /\ db'.stops[req[r].stopId].order = req'[r].order
               /\ req'[r].order = req[r].order]_vars

\* Three creates on a trip without stops: orders 0, 1, 2.
C13_Witness ==
    /\ req[1].op = "createStop" /\ req[1].pc = "done" /\ req[1].stopId = 3 /\ req[1].order = 2
    /\ TripStops(db, 2) = {1, 2, 3}
    /\ \A s \in StopRows(db) : db.stops[s].order = s - 1

\* The updateTrip call in slot r executes its statement and returns.
UpdateTripReturns(r) == req[r].op = "updateTrip" /\ req[r].pc = "exec" /\ req'[r].pc = "done"

\* C14: updateTrip with description null stores and returns null; without a
\* description it leaves the stored description as it was.
C14_NullDescriptionStored ==
    [][\A r \in Slots : UpdateTripReturns(r) =>
          /\ req[r].description = Null => db'.trips[req[r].tripId].description = Null /\ req'[r].ret.description = Null
          /\ req[r].description = NoName => db'.trips[req[r].tripId].description = db.trips[req[r].tripId].description]_vars

\* The stored fields of a trip (without the writer's tag).
TripFields(row) == [name |-> row.name, description |-> row.description, updated_at |-> row.updated_at]

\* C15: an update with no field leaves the stored entity, timestamps
\* included, as it was and returns it so.
C15_EmptyUpdateChangesNothing ==
    [][\A r \in Slots :
          /\ UpdateTripReturns(r) /\ req[r].name = NoName /\ req[r].description = NoName =>
               /\ TripFields(db'.trips[req[r].tripId]) = TripFields(db.trips[req[r].tripId])
               /\ req'[r].ret = TripFields(db.trips[req[r].tripId])
          /\ req[r].op = "updateStop" /\ req[r].pc = "read" /\ req'[r].pc = "done" =>
               /\ db' = db
               /\ req'[r].ret = db.stops[req[r].stopId]]_vars

\* C16: PATCH rejects, without a write, every id list that names a stop not
\* of the trip or leaves out a stop of the trip.
C16_PatchRejectsBadLists ==
    [][\A r \in Slots : req[r].op = "PATCH" /\ req[r].pc = "read" /\ req'[r].pc # "read"
                        /\ {req[r].ids[i] : i \in 1 .. Len(req[r].ids)} # TripStops(db, req[r].tripId)
                        => req'[r].pc = "rejected" /\ db' = db]_vars

\* The entity the call in slot r names is not in the store.
NamesAbsent(r) ==
    CASE req[r].op \in {"updateStop", "deleteStop"} -> req[r].stopId \notin StopRows(db)
      [] req[r].op \in {"updateTrip", "deleteTrip"} -> req[r].tripId \notin DOMAIN db.trips
      [] OTHER -> FALSE

\* C17: updateStop, deleteStop, updateTrip and deleteTrip on an id that is not
\* there return null / false without raising and change no row.
C17_AbsentIdChangesNothing ==
    [][\A r \in Slots :
          /\ req[r].op \in {"updateStop", "deleteStop", "updateTrip"} /\ req[r].pc = "read" /\ req'[r].pc # "read" /\ NamesAbsent(r) =>
               /\ req'[r].pc = "absent"
               /\ req'[r].ret = IF req[r].op = "deleteStop" THEN FALSE ELSE Null
               /\ db' = db
          /\ req[r].op = "deleteTrip" /\ req[r].pc = "exec" /\ req'[r].pc # "exec" /\ NamesAbsent(r) =>
               /\ req'[r].pc = "done"
               /\ req'[r].ret = FALSE
               /\ db' = db
          /\ req[r].pc = "absent" => db' = db]_vars

\* A second deleteTrip of the same trip has returned false.
C17_Witness == dialect = "sqlite" /\ req[1].op = "deleteTrip" /\ req[1].pc = "done" /\ req[1].tripId \notin DOMAIN db.trips /\ req[1].ret = FALSE

\* C18: on either adapter deleteTrip and deleteStop return true exactly when
\* the call removed a row.
C18_DeleteReportsRemoval ==
    [][\A r \in Slots :
          /\ req[r].op = "deleteTrip" /\ req[r].pc = "exec" /\ req'[r].pc = "done" =>
               req'[r].ret = (req[r].tripId \in DOMAIN db.trips /\ req[r].tripId \notin DOMAIN db'.trips)
          /\ req[r].op = "deleteStop" /\ req[r].pc = "begin" /\ req'[r].pc \in {"tx", "commit"} =>
               req'[r].ret = (req[r].stopId \in StopRows(db) /\ req[r].stopId \notin StopRows(db'))]_vars

\* C19: every stop and every conversation references a trip that is there;
\* deleting a trip takes its stops and its conversation with it.
C19_RowsReferenceTrips ==
    /\ \A x \in StopRows(db) : db.stops[x].trip_id \in DOMAIN db.trips
    /\ \A c \in DOMAIN db.conversations : db.conversations[c].trip_id \in DOMAIN db.trips

\* Trip 1, with its two stops and a conversation just saved, has been deleted.
C19_Witness ==
    /\ req[1].op = "saveConversation" /\ req[1].pc = "done" /\ req[1].tripId = 1
    /\ req[2].op = "deleteTrip" /\ req[2].pc = "done" /\ req[2].tripId = 1
    /\ 1 \notin DOMAIN db.trips
    /\ StopRows(db) = {}
    /\ DOMAIN db.conversations = {}

\* C20: no trip has more than one conversation row.
C20_OneConversationPerTrip ==
    \A t \in TripIds : Cardinality({c \in DOMAIN db.conversations : db.conversations[c].trip_id = t}) <= 1

---------------------------------------------------------------------------
(* Further claims about the assistant tool loop *)

\* The block names a stop that is not in the store, or a tool that is none of the five.
NamesNothing(block, d) ==
    \/ block.name \in {"update_stop", "remove_stop"} /\ block.stop_id \notin StopRows(d)
    \/ block.name = "other"

\* C24: a tool call naming a stop that does not exist, or an unknown tool,
\* changes no row and ends in a textual result recorded under the call's id;
\* the loop goes on to the next block.
C24_MissingTargetIsAResult ==
    [][chat.pc = "tool" /\ req[1].pc \in {"idle", "read", "absent"} /\ NamesNothing(chat.content[chat.bi], db) =>
          /\ db' = db
          /\ chat'.pc \in {"tool", "blocks"}
          /\ chat'.pc = "blocks" =>
               /\ chat'.bi = chat.bi + 1
               /\ chat'.toolResults = Append(chat.toolResults, [tool_use_id |-> chat.content[chat.bi].id,
                                                              content |-> IF chat.content[chat.bi].name = "other" THEN "unknown tool" ELSE "not found"])]_vars

\* update_stop and remove_stop of a stop that is not there, both answered, the store untouched.
C24_Witness ==
    /\ chat.pc = "blocks" /\ chat.bi = 3 /\ chat.modelCalls = 1
    /\ chat.content[1].name = "update_stop" /\ chat.content[1].stop_id = 3
    /\ chat.content[2].name = "remove_stop" /\ chat.content[2].stop_id = 3
    /\ chat.toolResults[1].content = "not found" /\ chat.toolResults[2].content = "not found"
    /\ db = ChatRows

\* C25: the model is never sent, and tools never run on, a history of more
\* than MsgCap messages.
C25_HistoryWithinCap == chat.pc \in {"blocks", "tool"} => chat.len <= MsgCap

---------------------------------------------------------------------------
(* Claims about requests in flight together *)

\* C26: when work raises inside transaction(work), the caller gets work's
\* own error, not one raised by ROLLBACK.
C26_WorkErrorPropagates ==
    [][\A r \in Slots : req[r].pc = "rollback" /\ req'[r].pc = "failed" => req'[r].err = "work"]_vars

\* C28: two reorderStops calls on one trip in flight together both complete:
\* with no storage failure, neither fails.
C28_ConcurrentReordersComplete ==
    [][/\ faults' = 0
       /\ \A r \in Slots : req[r].op \in {"none", "reorderStops"} /\ req'[r].op \in {"none", "reorderStops"}
       /\ \A r \in Slots : req'[r].op = "reorderStops" => req'[r].tripId = 1
       => \A r \in Slots : req'[r].pc # "failed"]_vars

\* C29: on SQLite a failing BEGIN in one request discards no write: the rows
\* are the same before and after it.
C29_FailingBeginDiscardsNothing ==
    [][\A r \in Slots : dialect = "sqlite" /\ req[r].pc = "begin" /\ req'[r].pc = "failed" => db' = db]_vars

\* C30: createStop calls that omit order, in flight together, give the stops
\* of a trip different orders.
C30_ConcurrentCreatesDistinct ==
    \A t \in TripIds : \A s, u \in TripStops(db, t) : s # u => db.stops[s].order # db.stops[u].order

---------------------------------------------------------------------------
(* Claims about the boundary: credentials, validation, placeholders *)

SameEnds(k1, k2) ==
    /\ sliceHead(k1, HeadLen) = sliceHead(k2, HeadLen)
    /\ sliceTail(k1, TailLen) = sliceTail(k2, TailLen)

\* C21: once a key is stored, the response of the settings read endpoint
\* depends on the key through its first 7 and last 4 characters only: any
\* other key with the same first 7 and last 4 characters would have produced
\* the same response.
C21_OnlyMaskedPreview ==
    settings.pc = "idle" /\ settings.response.kind = "GET" =>
        \A stored \in settings.rows : \A other \in Keys :
            SameEnds(stored, other) =>
                SettingsResponse(settings.route, {other}) = settings.response

\* C22: every persisted stop has its latitude within -90..90, its longitude
\* within -180..180 and a type of the closed set, whichever path wrote it.
C22_PersistedStopsAreValid ==
    \A id \in DOMAIN stopFields :
        /\ stopFields[id].latitude \in -LatMax..LatMax
        /\ stopFields[id].longitude \in -LngMax..LngMax
        /\ stopFields[id].type \in StopTypes

\* C23: every persisted stop has duration_value and duration_unit both
\* present or both absent.
C23_DurationIsAPair ==
    \A id \in DOMAIN stopFields :
        (stopFields[id].duration_value = {}) <=> (stopFields[id].duration_unit = {})

\* C27: a statement run by the adapter binds each placeholder $k to the k-th
\* parameter, on SQLite as on Postgres.
C27_PlaceholdersKeepTheirParameter ==
    issued.pc = "bound" => issued.result = bindNumbered(issued.sql, issued.params)

====
